---- MODULE Spec2Model ----
(***************************************************************************)
(* flow-core: the graph engine (Graph, Connections, Port, Node, Env).      *)
(*                                                                         *)
(* One Graph over three TestNode objects.  A front-end thread ("main")     *)
(* calls the Graph / Node API; the Env's worker pool runs the tasks that   *)
(* Graph::Run and Graph::PropagateConnectionsData submit.                  *)
(***************************************************************************)
EXTENDS Integers, Sequences, FiniteSets, TLC

(***************************************************************************)
(* Universe                                                                *)
(***************************************************************************)
\* The Node objects the front-end owns (each has its own UUID).
NodeIds == {"A", "B", "C"}

\* TestNode's ports: AddInput<int>("in"), AddInput<int>("other_in"),
\* AddOutput<int>("out"), AddOutput<int>("other_out").
InKeys == {"in", "other_in"}

OutKeys == {"out", "other_out"}

Keys == InKeys \cup OutKeys

\* Nodes of other classes: F has an output "out" of type float, X an output
\* "out" of a type X for which no conversion is registered.
TypedNodes == {"F", "X"}

\* The node the test module's TestNode class creates: no ports, and a
\* Compute() that always throws std::runtime_error.
ModuleNodes == {"T"}

AllNodes == NodeIds \cup TypedNodes \cup ModuleNodes

\* The nodes the front-end adds, removes and connects while it edits a graph.
TopoNodes == {"A", "B"}

\* The threads of the Env's pool that the model schedules.
Workers == {"w1", "w2"}

\* The values a data box may carry.
Values == {1, 2}

\* The float values, kept in tenths (35 is 3.5), and the value of type X.
FloatValues == {35}

XValues == {-1}

\* Largest number of connections alive at one time.
MaxConns == 2

\* Number of data boxes the front-end may create (MakeNodeData calls).
MaxBoxes == 2

\* Number of propagation tasks after which the front-end makes no further call.
MaxTasks == 3

\* The names under which handlers are bound to an EventDispatcher, and the
\* handlers.
EventNames == {"e1", "e2", "e3"}

Handlers == {"f", "g"}

NoHandler == "none"

ConnIds == 1..MaxConns

BoxIds == 1..MaxBoxes

\* nullptr for a SharedNodeData / SharedConnection / SharedNode.
Null == 0

NoNode == "none"

NoConn == [id |-> Null, sn |-> NoNode, sp |-> "none", en |-> NoNode, ep |-> "none"]

\* A Graph that has no node and no connection and has submitted no task.
EmptyOther == [nodes |-> {}, tuples |-> {}, tasks |-> 0]

NoTask == [kind |-> "none", conn |-> NoConn, node |-> NoNode, box |-> Null, seq |-> 0]

VARIABLES
    nodes,        \* Graph::_nodes: the ids of the nodes in the graph
    bound,        \* nodes whose OnEmitOutput holds "PropagateConnectionsData"
    connected,    \* Port::_connected, per node and port key
    data,         \* Port::_data, per node and port key: a box id or Null
    heap,         \* the value each allocated data box holds (0: not allocated)
    connections,  \* Connections::_connections: the connection objects in the table
    queue,        \* the pool's task queue (FIFO)
    worker,       \* per pool thread: where it is in the task it runs
    connMutex,    \* Connection::_mutex: ids of the connections that are locked
    nodeMutex,    \* Node::_mutex: the nodes that are locked
    main,         \* the front-end thread: idle, or inside a Compute() it invoked
    last,         \* the last API call the front-end made, with its result
    nextSeq,      \* number of propagation tasks submitted so far
    submitted,    \* per connection id: the tasks submitted on it, in order
    received,     \* per connection id: the tasks delivered on it, in order
    emitted,      \* per output port: the value of the last box emitted on it (0: none)
    nodeCalls,    \* the node methods the last graph call invoked, each with whether
                  \* the calling thread held Graph::_nodes_mutex
    events,       \* the events broadcast by the last InvokeCompute or failed task
    escaped,      \* the exception that left it: "none" when it returned normally
    handle,       \* per Module instance: Module::_handle is set
    registered,   \* per Module instance: the calls of its RegisterModule function
                  \* since its UnregisterModule function last ran
    loads,        \* per Module instance: the library handles it has opened so far
    released,     \* per Module instance: the library handles it has released so far
    constructors, \* NodeFactory::_constructor_map: the class tags that have a constructor
    friendly,     \* NodeFactory::_friendly_names: the class tags that have a friendly name
    categories,   \* NodeFactory::_category_map: how many entries each (category, tag) has
    current,      \* the class tags registered and not unregistered since
    registry,     \* TypeRegistry::_conversions: entries <<from, to, converter>>
    answer,       \* what the last query of the registry or of the graph returned
    dispatcher,   \* an EventDispatcher's _events: per name, the handler bound
    other,        \* a second Graph on the same nodes: its node map, the tuples of
                  \* its connections, the number of tasks it has submitted to its Env
    foreign       \* the nodes whose OnEmitOutput holds "PropagateConnectionsData"
                  \* bound by the second Graph

vars == <<nodes, bound, connected, data, heap, connections, queue, worker,
          connMutex, nodeMutex, main, last, nextSeq, submitted, received, emitted,
          nodeCalls, events, escaped, handle, registered, loads, released,
          constructors, friendly, categories, current, registry, answer,
          dispatcher, other, foreign>>

topoVars == <<nodes, bound, connected, connections>>

poolVars == <<queue, worker, connMutex, nodeMutex>>

ghostVars == <<nextSeq, submitted, received, emitted>>

errVars == <<events, escaped>>

factoryVars == <<constructors, friendly, categories, current>>

queryVars == <<registry, answer>>

moduleVars == <<handle, registered, loads, released, factoryVars>>

dispatchVars == <<dispatcher, other, foreign>>

(***************************************************************************)
(* Helpers                                                                 *)
(***************************************************************************)
\* All the orders in which the elements of S can be enumerated
\* (iteration order of an unordered container).
Orders(S) ==
    {s \in [1..Cardinality(S) -> S] : \A i, j \in 1..Cardinality(S) : s[i] = s[j] => i = j}

IsIncreasing(s) == \A i, j \in 1..Len(s) : i < j => s[i] < s[j]

Tuple(c) == <<c.sn, c.sp, c.en, c.ep>>

\* A call record: the operation, what it returned, and whether the input port
\* refused the connection (Port::Connect returned false).
Call(op, ret, refused) == [op |-> op, ret |-> ret, refused |-> refused, sent |-> 0]

\* The record of a ConnectNodes call that created the connection ret and
\* propagated along it the box the start port held, whose value was sent
\* (0: the start port held no box).
ConnectCall(ret, sent) == [op |-> "ConnectNodes", ret |-> ret, refused |-> FALSE, sent |-> sent]

NoCall == Call("none", Null, FALSE)

(***************************************************************************)
(* Port                                                                    *)
(***************************************************************************)
\* Port::Connect without its test of the flag: it accepts every connection.
PortConnectAlways(c) == [ret |-> TRUE, connected |-> TRUE]

\* Port::Connect on a port whose flag is c: the value returned and the new flag.
PortConnect(c) == [ret |-> ~c, connected |-> TRUE]

\* Port::Disconnect on a port whose flag is c.
PortDisconnect(c) == [ret |-> c, connected |-> FALSE]

\* Port::IsRequired: Node::AddInput sets it when the type ends in '&';
\* every TestNode port is declared <int>.
IsRequired(k) == FALSE

\* Port::SetData(box, output) on a port that holds cur, with heap h:
\* the box the port holds afterwards and the heap afterwards.
PortSetData(cur, box, output, required, h) ==
    IF box = Null /\ required
    THEN [data |-> cur, heap |-> h]
    ELSE IF cur = Null \/ box = Null \/ output
         THEN [data |-> box, heap |-> h]
         ELSE [data |-> cur, heap |-> [h EXCEPT ![cur] = h[box]]]

(***************************************************************************)
(* Type registry                                                           *)
(***************************************************************************)
\* Type tags are the character strings TypeName_v<T> gives (the spelling of
\* the non-Apple builds): "int", "float", "X", "std::any".
IntTag == <<"i", "n", "t">>

FloatTag == <<"f", "l", "o", "a", "t">>

XTag == <<"X">>

AnyTag == <<"s", "t", "d", ":", ":", "a", "n", "y">>

\* TypeName_v<const T> and TypeName_v<T&>
ConstOf(tag) == <<"c", "o", "n", "s", "t", " ">> \o tag

RefOf(tag) == tag \o <<"&">>

\* INodeData::Type of a box that holds v.
TypeOfValue(v) == IF v \in FloatValues THEN FloatTag ELSE IF v \in XValues THEN XTag ELSE IntTag

TypeOf(box) == TypeOfValue(heap[box])

\* Port::_type, given to AddInput<T> / AddOutput<T>.
PortType(n, k) == IF n = "F" THEN FloatTag ELSE IF n = "X" THEN XTag ELSE IntTag

\* TypeRegistry::_conversions after Env::Env has registered the numeric ladder.
Conversions == {<<FloatTag, IntTag>>, <<IntTag, FloatTag>>}

EnvRegistry == {<<c[1], c[2], "Convert">> : c \in Conversions}

\* No query was made yet.
NoAnswer == [op |-> "none", from |-> <<>>, to |-> <<>>, ret |-> 0, threw |-> FALSE]

\* TypeRegistry::Convert<From, To>: MakeNodeData<To>(*from_data).
Converter(from, to, v) ==
    IF from = FloatTag /\ to = IntTag THEN v \div 10
    ELSE IF from = IntTag /\ to = FloatTag THEN v * 10
    ELSE v

\* Port::GetDataType
GetDataType(n, k, d) == IF d[n][k] # Null THEN TypeOf(d[n][k]) ELSE PortType(n, k)

\* std::string_view::starts_with, ends_with, remove_prefix, remove_suffix
StartsWith(s, prefix) == Len(s) >= Len(prefix) /\ SubSeq(s, 1, Len(prefix)) = prefix

EndsWith(s, suffix) ==
    Len(s) >= Len(suffix) /\ SubSeq(s, Len(s) - Len(suffix) + 1, Len(s)) = suffix

RemovePrefix(s, n) == SubSeq(s, n + 1, Len(s))

RemoveSuffix(s, n) == SubSeq(s, 1, Len(s) - n)

\* The tag without a leading "const " and without a trailing "&".
StripConstSpace(tag) ==
    LET t == IF StartsWith(tag, <<"c", "o", "n", "s", "t", " ">>) THEN RemovePrefix(tag, 6) ELSE tag
    IN  IF EndsWith(t, <<"&">>) THEN RemoveSuffix(t, 1) ELSE t

\* What TypeRegistry::IsConvertible makes of a tag before it compares: six
\* characters less when the tag starts with "const", one less when it ends
\* with "&".
StripTag(tag) ==
    LET t == IF StartsWith(tag, <<"c", "o", "n", "s", "t">>) THEN RemovePrefix(tag, 6) ELSE tag
    IN  IF EndsWith(t, <<"&">>) THEN RemoveSuffix(t, 1) ELSE t

\* _conversions.contains(from) and _conversions.at(from).contains(to)
HasFrom(reg, from) == \E c \in reg : c[1] = from

HasEntry(reg, from, to) == \E c \in reg : c[1] = from /\ c[2] = to

\* The entry's converter is an empty std::function.
HasNullEntry(reg, from, to) == <<from, to, "null">> \in reg

\* TypeRegistry::IsConvertible on the registry reg.
IsConvertibleIn(reg, from_type, to_type) ==
    LET from == StripTag(from_type)
        to == StripTag(to_type)
    IN  IF from = to \/ to = AnyTag THEN TRUE
        ELSE IF ~HasFrom(reg, from) THEN FALSE
        ELSE HasEntry(reg, from, to)

\* TypeRegistry::IsConvertible
IsConvertible(from, to) == IsConvertibleIn(registry, from, to)

\* TypeRegistry::Convert(box, to) on the registry reg with heap h: the box
\* returned and the heap afterwards, or threw.  The box itself when it is null
\* or IsConvertible says yes, and when no conversion is registered for it; an
\* exception when the converter is empty; else a new box made by the converter.
ConvertIn(reg, box, to, h) ==
    IF box = Null \/ IsConvertibleIn(reg, TypeOfValue(h[box]), to)
    THEN [data |-> box, heap |-> h, threw |-> FALSE]
    ELSE IF ~HasFrom(reg, TypeOfValue(h[box]))
    THEN [data |-> box, heap |-> h, threw |-> FALSE]
    ELSE IF ~HasEntry(reg, TypeOfValue(h[box]), to)
    THEN [data |-> box, heap |-> h, threw |-> FALSE]
    ELSE IF HasNullEntry(reg, TypeOfValue(h[box]), to)
    THEN [data |-> Null, heap |-> h, threw |-> TRUE]
    ELSE LET free == {b \in BoxIds : h[b] = 0}
             new == CHOOSE b \in free : \A c \in free : b <= c
         IN  [data |-> new, heap |-> [h EXCEPT ![new] = Converter(TypeOfValue(h[box]), to, h[box])],
              threw |-> FALSE]

\* TypeRegistry::Convert
Convert(box, to, h) == ConvertIn(registry, box, to, h)

(***************************************************************************)
(* Connections                                                             *)
(***************************************************************************)
\* Connections::FindConnections(id)
FindConnections(conns, id) == {c \in conns : c.sn = id}

\* Connections::FindConnections(id, key) with the test of erase_if inverted:
\* it keeps the connections that start at the other ports.
FindConnectionsOtherKeys(conns, id, key) == {c \in FindConnections(conns, id) : c.sp # key}

\* Connections::FindConnections(id, key)
FindConnectionsKey(conns, id, key) == {c \in FindConnections(conns, id) : c.sp = key}

\* Ids of the connection objects that are still referenced: by the table, or
\* by a pool thread that holds the shared_ptr it locked from its weak_ptr.
HeldConns == {worker[w].task.conn.id : w \in {x \in Workers : worker[x].pc \in {"getnode", "locknode", "deliver", "compute"}}}

QueuedConns == {queue[i].conn.id : i \in 1..Len(queue)} \cup {worker[w].task.conn.id : w \in Workers}

UsedConnIds == {c.id : c \in connections} \cup QueuedConns

FreeConnIds == ConnIds \ UsedConnIds

\* Connections::Add: a new Connection object (its own UUID) keyed by start_id.
ConnectionsAdd(conns, id, s, sk, e, ek) ==
    conns \cup {[id |-> id, sn |-> s, sp |-> sk, en |-> e, ep |-> ek]}

\* Connections::RemoveByNodeID(uuid): erase the equal_range of the key uuid.
RemoveByNodeID(conns, uuid) == conns \ FindConnections(conns, uuid)

\* Connections::Remove(uuid, end_uuid): the tables that can result; find_if
\* takes the first entry of the key's range whose end node is end_uuid, and
\* the order inside the range of an unordered_multimap is unspecified.
RemovePair(conns, uuid, end_uuid) ==
    LET match == {c \in FindConnections(conns, uuid) : c.en = end_uuid}
    IN  IF match = {} THEN {conns} ELSE {conns \ {c} : c \in match}

(***************************************************************************)
(* Node / Graph: emitting and propagating                                  *)
(***************************************************************************)
\* Graph::GetNode
GetNode(id) == IF id \in nodes THEN id ELSE NoNode

\* The tasks Graph::PropagateConnectionsData(id, key, box) submits on the
\* table conns, numbered from seq0: one per connection found, in one of the
\* orders the snapshot can have.
PropagateTasks(conns, id, key, box, seq0) ==
    LET found == FindConnectionsKey(conns, id, key)
    IN  {[i \in 1..Cardinality(found) |->
            [kind |-> "propagate", conn |-> o[i], node |-> NoNode, box |-> box, seq |-> seq0 + i]]
         : o \in Orders(found)}

\* Node::EmitUpdate: OnEmitOutput.Broadcast reaches the graph's
\* PropagateConnectionsData when Graph::AddNode has bound it to the node.
EmitTasks(conns, id, key, box, seq0) ==
    IF id \in bound THEN PropagateTasks(conns, id, key, box, seq0) ELSE {<<>>}

\* Record the tasks ts as submitted on their connections.
RECURSIVE Submit(_, _)
Submit(sub, ts) ==
    IF ts = <<>> THEN sub
    ELSE Submit([sub EXCEPT ![Head(ts).conn.id] = Append(@, Head(ts).seq)], Tail(ts))

\* TestNode::Compute run on node n in the state (d, h): "in" is copied to
\* "out" and "other_in" to "other_out" (the same box), each emitted.
Compute(n, d, h) ==
    /\ heap' = h
    /\ data' = [d EXCEPT ![n] = [@ EXCEPT
                   !["out"] = IF d[n]["in"] # Null THEN d[n]["in"] ELSE @,
                   !["other_out"] = IF d[n]["other_in"] # Null THEN d[n]["other_in"] ELSE @]]
    /\ \E t1 \in (IF d[n]["in"] # Null
                  THEN EmitTasks(connections, n, "out", d[n]["in"], nextSeq) ELSE {<<>>}) :
       \E t2 \in (IF d[n]["other_in"] # Null
                  THEN EmitTasks(connections, n, "other_out", d[n]["other_in"], nextSeq + Len(t1))
                  ELSE {<<>>}) :
          /\ queue' = queue \o t1 \o t2
          /\ nextSeq' = nextSeq + Len(t1) + Len(t2)
          /\ submitted' = Submit(submitted, t1 \o t2)
    /\ emitted' = [emitted EXCEPT ![n] = [@ EXCEPT
                   !["out"] = IF d[n]["in"] # Null THEN h[d[n]["in"]] ELSE @,
                   !["other_out"] = IF d[n]["other_in"] # Null THEN h[d[n]["other_in"]] ELSE @]]

(***************************************************************************)
(* Node: InvokeCompute and its events                                      *)
(***************************************************************************)
\* How an execution of a node's Compute() ends: it returns ("ok"), or it throws
\* a std::exception, a std::string, a const char*, an int or any other object.
ComputeOutcomes == {"ok", "exception", "string", "cstring", "int", "other"}

Failures == ComputeOutcomes \ {"ok"}

\* An event broadcast by a node (OnCompute, OnError) or by the graph (OnError).
NodeEvent(ev) == [src |-> "node", ev |-> ev]

GraphEvent(ev) == [src |-> "graph", ev |-> ev]

\* A try block whose handlers catch std::exception only.
CatchStdException == <<"exception">>

\* The handlers of Node::InvokeCompute's function-try-block, in order.
InvokeComputeHandlers == <<"exception", "string", "cstring", "int", "...">>

\* The handlers of the try block of a propagation task.
TaskHandlers == <<"exception">>

\* Some handler of the list catches a thrown object of kind o.
Catches(handlers, o) ==
    \E i \in 1..Len(handlers) : handlers[i] = o \/ handlers[i] = "..."

\* Node::InvokeCompute when Compute() ends with o: the events it broadcasts and
\* the exception that leaves it ("none": it returns normally).
InvokeComputeResult(o) ==
    IF o = "ok"
    THEN [events |-> <<NodeEvent("OnCompute")>>, escaped |-> "none"]
    ELSE IF Catches(InvokeComputeHandlers, o)
         THEN [events |-> <<NodeEvent("OnError")>>, escaped |-> "none"]
         ELSE [events |-> <<>>, escaped |-> o]

\* Node::InvokeCompute on node n in the state (d, h). A Compute() that fails
\* throws before it sets or emits anything.
InvokeCompute(n, o, d, h) ==
    /\ IF o = "ok"
       THEN Compute(n, d, h)
       ELSE /\ data' = d
            /\ heap' = h
            /\ UNCHANGED <<queue, nextSeq, submitted, emitted>>
    /\ events' = InvokeComputeResult(o).events
    /\ escaped' = InvokeComputeResult(o).escaped

(***************************************************************************)
(* Graph: topology calls made by the front-end thread                      *)
(***************************************************************************)
\* A call of a node method made by a graph operation; locked: the calling
\* thread holds Graph::_nodes_mutex (a std::lock_guard is in scope).
NodeCall(method, locked) == [method |-> method, locked |-> locked]

\* node->OnEmitOutput.Bind("PropagateConnectionsData", handler of this graph):
\* try_emplace keeps the handler another graph has bound under the name.
\* mine: the nodes that hold this graph's handler; theirs: the other graph's.
EventBind(mine, theirs, n) == IF n \in theirs THEN mine ELSE mine \cup {n}

\* Graph::AddNode
AddNode(n) ==
    /\ main.pc = "idle"
    /\ bound' = EventBind(bound, foreign, n)
    /\ nodes' = nodes \cup {n}
    /\ last' = Call("AddNode", Null, FALSE)
    /\ nodeCalls' = {NodeCall("ID", TRUE)}
    /\ UNCHANGED <<connected, data, heap, connections, poolVars, main, ghostVars>>
    /\ UNCHANGED <<errVars, moduleVars>>
    /\ UNCHANGED queryVars
    /\ UNCHANGED dispatchVars

\* Graph::RemoveNodeByID
RemoveNodeByID(n) ==
    /\ main.pc = "idle"
    /\ connections' = RemoveByNodeID(connections, n)
    /\ nodes' = nodes \ {n}
    /\ last' = Call("RemoveNodeByID", Null, FALSE)
    /\ nodeCalls' = IF GetNode(n) # NoNode THEN {NodeCall("Stop", TRUE)} ELSE {}
    /\ UNCHANGED <<bound, connected, data, heap, poolVars, main, ghostVars>>
    /\ UNCHANGED <<errVars, moduleVars>>
    /\ UNCHANGED queryVars
    /\ UNCHANGED dispatchVars

\* Graph::ConnectNodes
ConnectNodes(s, sk, e, ek) ==
    /\ main.pc = "idle"
    /\ nodeCalls' = IF GetNode(s) = NoNode \/ GetNode(e) = NoNode THEN {}
                    ELSE {NodeCall("GetOutputPort", FALSE), NodeCall("GetInputPort", FALSE)}
                         \cup (IF PortConnect(connected[e][ek]).ret
                               THEN {NodeCall("GetOutputData", FALSE)} ELSE {})
    /\ IF GetNode(s) = NoNode \/ GetNode(e) = NoNode
       THEN /\ last' = Call("ConnectNodes", Null, FALSE)
            /\ UNCHANGED <<connected, connections, queue, nextSeq, submitted, received>>
       ELSE LET started == [connected EXCEPT ![s][sk] = PortConnect(@).connected]
                endPort == PortConnect(started[e][ek])
            IN  IF ~endPort.ret
                THEN /\ connected' = started
                     /\ LET found == {c \in FindConnectionsKey(connections, s, sk) :
                                         c.en = e /\ c.ep = ek}
                        IN  \E r \in (IF found = {} THEN {Null} ELSE {c.id : c \in found}) :
                               last' = Call("ConnectNodes", r, TRUE)
                     /\ UNCHANGED <<connections, queue, nextSeq, submitted, received>>
                ELSE \E id \in FreeConnIds :
                     /\ id = CHOOSE i \in FreeConnIds : \A j \in FreeConnIds : i <= j
                     /\ connected' = [started EXCEPT ![e][ek] = endPort.connected]
                     /\ connections' = ConnectionsAdd(connections, id, s, sk, e, ek)
                     /\ \E ts \in (IF data[s][sk] # Null
                                   THEN PropagateTasks(connections', s, sk, data[s][sk], nextSeq)
                                   ELSE {<<>>}) :
                           /\ queue' = queue \o ts
                           /\ nextSeq' = nextSeq + Len(ts)
                           /\ submitted' = Submit([submitted EXCEPT ![id] = <<>>], ts)
                     /\ received' = [received EXCEPT ![id] = <<>>]
                     /\ last' = ConnectCall(id, IF data[s][sk] # Null THEN heap[data[s][sk]] ELSE 0)
    /\ UNCHANGED <<nodes, bound, data, heap, worker, connMutex, nodeMutex, main, emitted>>
    /\ UNCHANGED <<errVars, moduleVars>>
    /\ UNCHANGED queryVars
    /\ UNCHANGED dispatchVars

\* Graph::DisconnectNodes, up to the Compute() that its
\* out_node->SetInputData(end_port_key, nullptr) invokes on the calling thread.
DisconnectNodes(s, sk, e, ek) ==
    /\ main.pc = "idle"
    /\ last' = Call("DisconnectNodes", Null, FALSE)
    /\ nodeCalls' = IF GetNode(s) = NoNode \/ GetNode(e) = NoNode THEN {}
                    ELSE {NodeCall("GetOutputPort", FALSE), NodeCall("GetInputPort", FALSE),
                          NodeCall("SetInputData", FALSE)}
    /\ \E remaining \in RemovePair(connections, s, e) :
          /\ connections' = remaining
          /\ IF GetNode(s) = NoNode \/ GetNode(e) = NoNode
             THEN UNCHANGED <<connected, data, heap, main>>
             ELSE LET started == IF FindConnectionsKey(remaining, s, sk) = {}
                                 THEN [connected EXCEPT ![s][sk] = PortDisconnect(@).connected]
                                 ELSE connected
                      set == PortSetData(data[e][ek], Null, FALSE, IsRequired(ek), heap)
                  IN  /\ connected' = [started EXCEPT ![e][ek] = PortDisconnect(@).connected]
                      /\ data' = [data EXCEPT ![e][ek] = set.data]
                      /\ heap' = set.heap
                      /\ main' = [pc |-> "compute", node |-> e]
    /\ UNCHANGED <<nodes, bound, poolVars, ghostVars>>
    /\ UNCHANGED <<errVars, moduleVars>>
    /\ UNCHANGED queryVars
    /\ UNCHANGED dispatchVars

\* The front-end thread runs the Compute() it is inside of and returns.
MainCompute ==
    /\ main.pc = "compute"
    /\ InvokeCompute(main.node, "ok", data, heap)
    /\ main' = [pc |-> "idle", node |-> NoNode]
    /\ UNCHANGED <<topoVars, worker, connMutex, nodeMutex, last, received>>
    /\ UNCHANGED <<nodeCalls, moduleVars>>
    /\ UNCHANGED queryVars
    /\ UNCHANGED dispatchVars

(***************************************************************************)
(* Node: data calls made by the front-end thread                           *)
(***************************************************************************)
\* MakeNodeData<int>(v): the boxes that can be allocated next.
FreshBoxes == {b \in BoxIds : heap[b] = 0 /\ \A c \in BoxIds : heap[c] = 0 => b <= c}

\* node->SetInputData(k, MakeNodeData<int>(v)): Port::SetData, OnSetInput,
\* then InvokeCompute on the calling thread.
SetInputData(n, k, v) ==
    /\ main.pc = "idle"
    /\ \E b \in FreshBoxes :
          LET set == PortSetData(data[n][k], b, FALSE, IsRequired(k), [heap EXCEPT ![b] = v])
          IN  InvokeCompute(n, "ok", [data EXCEPT ![n][k] = set.data], set.heap)
    /\ last' = Call("SetInputData", Null, FALSE)
    /\ UNCHANGED <<topoVars, worker, connMutex, nodeMutex, main, received>>
    /\ UNCHANGED <<nodeCalls, moduleVars>>
    /\ UNCHANGED queryVars
    /\ UNCHANGED dispatchVars

\* Graph::PropagateConnectionsData(id, key, data) of the second Graph g: one
\* task submitted to its Env per connection found.  (Only the front-end's
\* SetOutputData emits on a node that holds the second Graph's handler: the
\* specifications that run Compute() have no second Graph.)
OtherPropagate(g, id, key) ==
    [g EXCEPT !.tasks = @ + Cardinality({t \in g.tuples : t[1] = id /\ t[2] = key})]

\* node->SetOutputData(k, MakeNodeData<int>(v)): Port::SetData as output,
\* OnSetOutput, then EmitUpdate, whose Broadcast reaches the graph that has
\* bound its handler to the node.
SetOutputData(n, k, v) ==
    /\ main.pc = "idle"
    /\ \E b \in FreshBoxes :
          LET set == PortSetData(data[n][k], b, TRUE, IsRequired(k), [heap EXCEPT ![b] = v])
          IN  /\ data' = [data EXCEPT ![n][k] = set.data]
              /\ heap' = set.heap
              /\ \E ts \in EmitTasks(connections, n, k, b, nextSeq) :
                    /\ queue' = queue \o ts
                    /\ nextSeq' = nextSeq + Len(ts)
                    /\ submitted' = Submit(submitted, ts)
    /\ emitted' = [emitted EXCEPT ![n][k] = v]
    /\ last' = Call("SetOutputData", Null, FALSE)
    /\ other' = IF n \in foreign THEN OtherPropagate(other, n, k) ELSE other
    /\ UNCHANGED <<topoVars, worker, connMutex, nodeMutex, main, received>>
    /\ UNCHANGED <<nodeCalls, errVars, moduleVars>>
    /\ UNCHANGED queryVars
    /\ UNCHANGED <<dispatcher, foreign>>

\* Graph::GetSourceNodes: a connected output port and no connected input port.
GetSourceNodes ==
    {n \in nodes : (\E k \in OutKeys : connected[n][k]) /\ ~(\E k \in InKeys : connected[n][k])}

\* Graph::Run: one task per source node, in the order of the node map.
Run ==
    /\ main.pc = "idle"
    /\ \E o \in Orders(GetSourceNodes) :
          queue' = queue \o [i \in 1..Len(o) |->
                       [kind |-> "run", conn |-> NoConn, node |-> o[i], box |-> Null, seq |-> 0]]
    /\ last' = Call("Run", Null, FALSE)
    /\ nodeCalls' = IF nodes = {} THEN {}
                    ELSE {NodeCall("GetInputPorts", TRUE), NodeCall("GetOutputPorts", TRUE)}
    /\ UNCHANGED <<topoVars, data, heap, worker, connMutex, nodeMutex, main, ghostVars>>
    /\ UNCHANGED <<errVars, moduleVars>>
    /\ UNCHANGED queryVars
    /\ UNCHANGED dispatchVars

(***************************************************************************)
(* Type registry: calls made by the front-end thread                       *)
(***************************************************************************)
\* TypeName_v of a user type called "constant".
ConstantTag == <<"c", "o", "n", "s", "t", "a", "n", "t">>

\* The conversions the front-end registers on top of the numeric ladder, each
\* with the default converter or with an empty one.
UserConversions ==
    {<<ConstantTag, IntTag>>, <<XTag, IntTag>>, <<XTag, FloatTag>>, <<IntTag, XTag>>}

Converters == {"Convert", "null"}

\* The tags the front-end asks about.
QueryTags ==
    {IntTag, FloatTag, XTag, AnyTag, ConstantTag,
     ConstOf(IntTag), RefOf(IntTag), ConstOf(RefOf(IntTag))}

\* TypeRegistry::RegisterConversion: emplace keeps an entry that is there.
RegisterConversion(from, to, converter) ==
    /\ main.pc = "idle"
    /\ ~HasEntry(registry, from, to)
    /\ registry' = registry \cup {<<from, to, converter>>}
    /\ UNCHANGED <<topoVars, data, heap, poolVars, main, last, ghostVars, nodeCalls, errVars>>
    /\ UNCHANGED <<moduleVars, answer>>
    /\ UNCHANGED dispatchVars

\* factory->IsConvertible(from, to) called by the front-end.
QueryIsConvertible(from, to) ==
    /\ main.pc = "idle"
    /\ answer' = [op |-> "IsConvertible", from |-> from, to |-> to,
                  ret |-> IF IsConvertible(from, to) THEN 1 ELSE 0, threw |-> FALSE]
    /\ UNCHANGED <<topoVars, data, heap, poolVars, main, last, ghostVars, nodeCalls, errVars>>
    /\ UNCHANGED <<moduleVars, registry>>
    /\ UNCHANGED dispatchVars

\* factory->Convert(MakeNodeData(v), to) called by the front-end, which drops
\* the boxes afterwards: ret is the value of the box returned.
QueryConvert(v, to) ==
    /\ main.pc = "idle"
    /\ \E b \in FreshBoxes :
          LET r == Convert(b, to, [heap EXCEPT ![b] = v])
          IN  answer' = [op |-> "Convert", from |-> TypeOfValue(v), to |-> to,
                         ret |-> IF r.threw THEN 0 ELSE r.heap[r.data], threw |-> r.threw]
    /\ UNCHANGED <<topoVars, data, heap, poolVars, main, last, ghostVars, nodeCalls, errVars>>
    /\ UNCHANGED <<moduleVars, registry>>
    /\ UNCHANGED dispatchVars

(***************************************************************************)
(* Env: the worker pool                                                    *)
(***************************************************************************)
\* Env::Wait returns when no task is queued or running.
WaitReturns == queue = <<>> /\ \A w \in Workers : worker[w].pc = "idle"

Idle == [pc |-> "idle", task |-> NoTask]

\* A pool thread takes the oldest task of the queue (Env::AddTask, detach_task).
Take(w) ==
    /\ worker[w].pc = "idle"
    /\ queue # <<>>
    /\ worker' = [worker EXCEPT ![w] = [pc |-> "start", task |-> Head(queue)]]
    /\ queue' = Tail(queue)
    /\ UNCHANGED <<topoVars, data, heap, connMutex, nodeMutex, main, last, ghostVars>>
    /\ UNCHANGED <<nodeCalls, errVars, moduleVars>>
    /\ UNCHANGED queryVars
    /\ UNCHANGED dispatchVars

\* Propagation task: connection.lock() on the weak_ptr; return if it expired.
LockWeak(w) ==
    /\ worker[w].pc = "start"
    /\ worker[w].task.kind = "propagate"
    /\ IF worker[w].task.conn \in connections \/ worker[w].task.conn.id \in HeldConns
       THEN worker' = [worker EXCEPT ![w].pc = "lockconn"]
       ELSE worker' = [worker EXCEPT ![w] = Idle]
    /\ UNCHANGED <<topoVars, data, heap, queue, connMutex, nodeMutex, main, last, ghostVars>>
    /\ UNCHANGED <<nodeCalls, errVars, moduleVars>>
    /\ UNCHANGED queryVars
    /\ UNCHANGED dispatchVars

\* Propagation task: std::lock_guard conn_lock(*conn).
LockConn(w) ==
    /\ worker[w].pc = "lockconn"
    /\ worker[w].task.conn.id \notin connMutex
    /\ connMutex' = connMutex \cup {worker[w].task.conn.id}
    /\ worker' = [worker EXCEPT ![w].pc = "getnode"]
    /\ UNCHANGED <<topoVars, data, heap, queue, nodeMutex, main, last, ghostVars>>
    /\ UNCHANGED <<nodeCalls, errVars, moduleVars>>
    /\ UNCHANGED queryVars
    /\ UNCHANGED dispatchVars

\* Propagation task: GetNode(conn->EndNodeID()) when the return for a node
\* that is gone leaves the connection locked (no lock_guard).
GetEndNodeKeepsLock(w) ==
    /\ worker[w].pc = "getnode"
    /\ IF GetNode(worker[w].task.conn.en) = NoNode
       THEN worker' = [worker EXCEPT ![w] = Idle]
       ELSE worker' = [worker EXCEPT ![w].pc = "locknode",
                                     ![w].task.node = worker[w].task.conn.en]
    /\ UNCHANGED connMutex
    /\ UNCHANGED <<topoVars, data, heap, queue, nodeMutex, main, last, ghostVars>>
    /\ UNCHANGED <<nodeCalls, errVars, moduleVars>>
    /\ UNCHANGED queryVars
    /\ UNCHANGED dispatchVars

\* Propagation task: GetNode(conn->EndNodeID()); return if the node is gone.
GetEndNode(w) ==
    /\ worker[w].pc = "getnode"
    /\ IF GetNode(worker[w].task.conn.en) = NoNode
       THEN /\ worker' = [worker EXCEPT ![w] = Idle]
            /\ connMutex' = connMutex \ {worker[w].task.conn.id}
       ELSE /\ worker' = [worker EXCEPT ![w].pc = "locknode",
                                        ![w].task.node = worker[w].task.conn.en]
            /\ UNCHANGED connMutex
    /\ UNCHANGED <<topoVars, data, heap, queue, nodeMutex, main, last, ghostVars>>
    /\ UNCHANGED <<nodeCalls, errVars, moduleVars>>
    /\ UNCHANGED queryVars
    /\ UNCHANGED dispatchVars

\* Propagation task: std::lock_guard _(*node).
\* Run task: std::lock_guard _(*node).
LockNode(w) ==
    /\ \/ worker[w].pc = "locknode"
       \/ worker[w].pc = "start" /\ worker[w].task.kind = "run"
    /\ worker[w].task.node \notin nodeMutex
    /\ nodeMutex' = nodeMutex \cup {worker[w].task.node}
    /\ worker' = [worker EXCEPT ![w].pc = IF worker[w].task.kind = "run" THEN "compute" ELSE "deliver"]
    /\ UNCHANGED <<topoVars, data, heap, queue, connMutex, main, last, ghostVars>>
    /\ UNCHANGED <<nodeCalls, errVars, moduleVars>>
    /\ UNCHANGED queryVars
    /\ UNCHANGED dispatchVars

\* Propagation task: factory->Convert(in_data, port->GetDataType()), then
\* node->SetInputData up to the call of Compute().
Deliver(w) ==
    /\ worker[w].pc = "deliver"
    /\ LET t == worker[w].task
           converted == Convert(t.box, GetDataType(t.node, t.conn.ep, data), heap)
           set == PortSetData(data[t.node][t.conn.ep], converted.data, FALSE,
                              IsRequired(t.conn.ep), converted.heap)
       IN  /\ data' = [data EXCEPT ![t.node][t.conn.ep] = set.data]
           /\ heap' = set.heap
           /\ received' = [received EXCEPT ![t.conn.id] = Append(@, t.seq)]
    /\ worker' = [worker EXCEPT ![w].pc = "compute"]
    /\ UNCHANGED <<topoVars, queue, connMutex, nodeMutex, main, last, nextSeq, submitted, emitted>>
    /\ UNCHANGED <<nodeCalls, errVars, moduleVars>>
    /\ UNCHANGED queryVars
    /\ UNCHANGED dispatchVars

\* Either task when Compute() returns and the node's mutex stays locked (no
\* lock_guard on the node).
FinishKeepsNode(w) ==
    /\ worker[w].pc = "compute"
    /\ InvokeCompute(worker[w].task.node, "ok", data, heap)
    /\ connMutex' = connMutex \ {worker[w].task.conn.id}
    /\ worker' = [worker EXCEPT ![w] = Idle]
    /\ UNCHANGED <<topoVars, nodeMutex, main, last, received>>
    /\ UNCHANGED <<nodeCalls, moduleVars>>
    /\ UNCHANGED queryVars
    /\ UNCHANGED dispatchVars

\* Either task: Compute() runs and returns, and the lock guards are released.
Finish(w) ==
    /\ worker[w].pc = "compute"
    /\ InvokeCompute(worker[w].task.node, "ok", data, heap)
    /\ nodeMutex' = nodeMutex \ {worker[w].task.node}
    /\ connMutex' = connMutex \ {worker[w].task.conn.id}
    /\ worker' = [worker EXCEPT ![w] = Idle]
    /\ UNCHANGED <<topoVars, main, last, received>>
    /\ UNCHANGED <<nodeCalls, moduleVars>>
    /\ UNCHANGED queryVars
    /\ UNCHANGED dispatchVars

\* A pool thread that std::terminate stopped; it stops the process.
Aborted == [pc |-> "aborted", task |-> NoTask]

Running == \A w \in Workers : worker[w].pc # "aborted"

\* Propagation task in which a subscriber of the end node's OnSetInput throws
\* an object of kind x: Port::SetData has stored the box, InvokeCompute is not
\* reached, the lock guards are released while the stack unwinds. The task's
\* handlers catch it and broadcast the graph's OnError, or it leaves the task:
\* the pool then drops it or the process is terminated.
DeliverThrows(w, x) ==
    /\ worker[w].pc = "deliver"
    /\ LET t == worker[w].task
           converted == Convert(t.box, GetDataType(t.node, t.conn.ep, data), heap)
           set == PortSetData(data[t.node][t.conn.ep], converted.data, FALSE,
                              IsRequired(t.conn.ep), converted.heap)
       IN  /\ data' = [data EXCEPT ![t.node][t.conn.ep] = set.data]
           /\ heap' = set.heap
           /\ received' = [received EXCEPT ![t.conn.id] = Append(@, t.seq)]
           /\ nodeMutex' = nodeMutex \ {t.node}
           /\ connMutex' = connMutex \ {t.conn.id}
    /\ IF Catches(TaskHandlers, x)
       THEN /\ events' = <<GraphEvent("OnError")>>
            /\ escaped' = "none"
            /\ worker' = [worker EXCEPT ![w] = Idle]
       ELSE /\ events' = <<>>
            /\ escaped' = x
            /\ \E after \in {Idle, Aborted} : worker' = [worker EXCEPT ![w] = after]
    /\ UNCHANGED <<topoVars, queue, main, last, nextSeq, submitted, emitted>>
    /\ UNCHANGED <<nodeCalls, moduleVars>>
    /\ UNCHANGED queryVars
    /\ UNCHANGED dispatchVars

\* Either task when Compute() fails with o: InvokeCompute returns, and the lock
\* guards are released.
FinishFails(w, o) ==
    /\ worker[w].pc = "compute"
    /\ InvokeCompute(worker[w].task.node, o, data, heap)
    /\ nodeMutex' = nodeMutex \ {worker[w].task.node}
    /\ connMutex' = connMutex \ {worker[w].task.conn.id}
    /\ worker' = [worker EXCEPT ![w] = Idle]
    /\ UNCHANGED <<topoVars, main, last, received>>
    /\ UNCHANGED <<nodeCalls, moduleVars>>
    /\ UNCHANGED queryVars
    /\ UNCHANGED dispatchVars

\* node->InvokeCompute() called by the front-end thread, Compute() ending with o.
MainInvoke(n, o) ==
    /\ main.pc = "idle"
    /\ InvokeCompute(n, o, data, heap)
    /\ last' = Call("InvokeCompute", Null, FALSE)
    /\ UNCHANGED <<topoVars, worker, connMutex, nodeMutex, main, received>>
    /\ UNCHANGED <<nodeCalls, moduleVars>>
    /\ UNCHANGED queryVars
    /\ UNCHANGED dispatchVars

\* Number of executions of node n's Compute() in progress that the engine
\* started: in a pool task, or in Graph::DisconnectNodes on the front-end thread.
ComputeInProgress(n) ==
    Cardinality({w \in Workers : worker[w].pc = "compute" /\ worker[w].task.node = n})
    + (IF main.pc = "compute" /\ main.node = n THEN 1 ELSE 0)

(***************************************************************************)
(* Module: loading and unloading a node library                            *)
(***************************************************************************)
\* Module instances made with Module(factory): not loaded.
Modules == {"m1", "m2"}

\* Each instance opens a library at most MaxLoads times.
MaxLoads == 2

\* The paths given to Load: a module archive; a path for which Load throws
\* before it opens a library (no such path, not a regular file, not an
\* archive, metadata that is not valid, a binary that cannot be loaded); an
\* archive whose binary loads but whose RegisterModule cannot be resolved or
\* throws.
Paths == {"archive", "missing", "directory", "notzip", "badmeta", "nobinary", "noregister"}

\* The paths for which LoadModuleLibrary returns a handle.
Loadable == {"archive", "noregister"}

\* How UnregisterModuleNodes ends in Unload: it returns, or it throws (the
\* symbol cannot be resolved, or UnregisterModule throws).
UnregisterOutcomes == {"ok", "throws"}

\* What a Module call gave back: true, false, or an exception.
True == 1

False == 0

Threw == -1

\* The class tags and the categories given to the factory; the test module
\* registers TestNode in the category "test".
ClassTags == {"TestNode", "OtherNode"}

Categories == {"test", "other"}

\* Each (category, tag) pair has at most MaxEntries entries in _category_map.
MaxEntries == 2

\* NodeFactory::RegisterNodeClass<T>(category, name): three emplace calls.
RegisterNodeClass(category, tag) ==
    /\ constructors' = constructors \cup {tag}
    /\ categories' = [categories EXCEPT ![category][tag] = @ + 1]
    /\ friendly' = friendly \cup {tag}
    /\ current' = current \cup {tag}

\* UnregisterNodeClass that erases the category entry only.
UnregisterCategoryOnly(category, tag) ==
    /\ categories' = [categories EXCEPT ![category][tag] = 0]
    /\ current' = current \ {tag}
    /\ UNCHANGED <<constructors, friendly>>

\* UnregisterNodeClass that leaves the friendly name.
UnregisterKeepsName(category, tag) ==
    /\ constructors' = constructors \ {tag}
    /\ categories' = [categories EXCEPT ![category][tag] = 0]
    /\ current' = current \ {tag}
    /\ UNCHANGED friendly

\* NodeFactory::UnregisterNodeClass(category, class_name)
UnregisterNodeClass(category, tag) ==
    /\ constructors' = constructors \ {tag}
    /\ friendly' = friendly \ {tag}
    /\ categories' = [categories EXCEPT ![category][tag] = 0]
    /\ current' = current \ {tag}

\* NodeFactory::CreateNode: the node it returns is not null.
CreateNode(tag) == tag \in constructors

\* factory->RegisterNodeClass<T>(category, name) called by the front-end.
FactoryRegister(category, tag) ==
    /\ main.pc = "idle"
    /\ categories[category][tag] < MaxEntries
    /\ RegisterNodeClass(category, tag)
    /\ last' = Call("RegisterNodeClass", Null, FALSE)
    /\ UNCHANGED <<topoVars, data, heap, poolVars, main, ghostVars, nodeCalls, errVars>>
    /\ UNCHANGED <<handle, registered, loads, released>>
    /\ UNCHANGED queryVars
    /\ UNCHANGED dispatchVars

\* factory->UnregisterNodeClass<T>(category) called by the front-end.
FactoryUnregister(category, tag) ==
    /\ main.pc = "idle"
    /\ UnregisterNodeClass(category, tag)
    /\ last' = Call("UnregisterNodeClass", Null, FALSE)
    /\ UNCHANGED <<topoVars, data, heap, poolVars, main, ghostVars, nodeCalls, errVars>>
    /\ UNCHANGED <<handle, registered, loads, released>>
    /\ UNCHANGED queryVars
    /\ UNCHANGED dispatchVars

\* factory->CreateNode(tag, ...) called by the front-end.
FactoryCreate(tag) ==
    /\ main.pc = "idle"
    /\ last' = Call("CreateNode", IF CreateNode(tag) THEN True ELSE False, FALSE)
    /\ UNCHANGED <<topoVars, data, heap, poolVars, main, ghostVars, nodeCalls, errVars>>
    /\ UNCHANGED moduleVars
    /\ UNCHANGED queryVars
    /\ UNCHANGED dispatchVars

\* Module::IsLoaded
IsLoaded(m) == handle[m]

\* Module::Load without the test of _handle.
LoadReloading(m, path) ==
    /\ main.pc = "idle"
    /\ path \in Loadable => loads[m] < MaxLoads
    /\ IF path \notin Loadable
       THEN /\ last' = Call("Load", Threw, FALSE)
            /\ UNCHANGED moduleVars
       ELSE /\ handle' = [handle EXCEPT ![m] = TRUE]
            /\ loads' = [loads EXCEPT ![m] = @ + 1]
            /\ UNCHANGED released
            /\ IF path = "noregister"
               THEN /\ last' = Call("Load", Threw, FALSE)
                    /\ UNCHANGED <<registered, factoryVars>>
               ELSE /\ RegisterNodeClass("test", "TestNode")
                    /\ registered' = [registered EXCEPT ![m] = @ + 1]
                    /\ last' = Call("Load", True, FALSE)
    /\ UNCHANGED <<topoVars, data, heap, poolVars, main, ghostVars, nodeCalls, errVars>>
    /\ UNCHANGED queryVars
    /\ UNCHANGED dispatchVars

\* Module::Load
Load(m, path) ==
    /\ main.pc = "idle"
    /\ (~handle[m] /\ path \in Loadable) => loads[m] < MaxLoads
    /\ IF handle[m]
       THEN /\ last' = Call("Load", False, FALSE)
            /\ UNCHANGED moduleVars
       ELSE IF path \notin Loadable
            THEN /\ last' = Call("Load", Threw, FALSE)
                 /\ UNCHANGED moduleVars
            ELSE /\ handle' = [handle EXCEPT ![m] = TRUE]
                 /\ loads' = [loads EXCEPT ![m] = @ + 1]
                 /\ UNCHANGED released
                 /\ IF path = "noregister"
                    THEN /\ last' = Call("Load", Threw, FALSE)
                         /\ UNCHANGED <<registered, factoryVars>>
                    ELSE /\ RegisterNodeClass("test", "TestNode")
                         /\ registered' = [registered EXCEPT ![m] = @ + 1]
                         /\ last' = Call("Load", True, FALSE)
    /\ UNCHANGED <<topoVars, data, heap, poolVars, main, ghostVars, nodeCalls, errVars>>
    /\ UNCHANGED queryVars
    /\ UNCHANGED dispatchVars

\* Module::Unload, UnregisterModuleNodes ending with u.
Unload(m, u) ==
    /\ main.pc = "idle"
    /\ IF ~handle[m]
       THEN /\ last' = Call("Unload", False, FALSE)
            /\ UNCHANGED moduleVars
       ELSE IF u = "throws"
            THEN /\ last' = Call("Unload", Threw, FALSE)
                 /\ UNCHANGED moduleVars
            ELSE /\ UnregisterNodeClass("test", "TestNode")
                 /\ registered' = [registered EXCEPT ![m] = 0]
                 /\ handle' = [handle EXCEPT ![m] = FALSE]
                 /\ released' = [released EXCEPT ![m] = @ + 1]
                 /\ UNCHANGED loads
                 /\ last' = Call("Unload", True, FALSE)
    /\ UNCHANGED <<topoVars, data, heap, poolVars, main, ghostVars, nodeCalls, errVars>>
    /\ UNCHANGED queryVars
    /\ UNCHANGED dispatchVars

(***************************************************************************)
(* Graph: queries and serialization                                        *)
(***************************************************************************)
\* UUID::_id of each Node object: the byte in which the ids differ.
UUIDOf(n) ==
    CASE n = "A" -> 26 [] n = "B" -> 43 [] n = "C" -> 60
      [] n = "F" -> 79 [] n = "X" -> 88 [] n = "T" -> 116

HexDigits ==
    <<"0", "1", "2", "3", "4", "5", "6", "7", "8", "9", "a", "b", "c", "d", "e", "f">>

\* UUID::operator std::string: snprintf("%02x") of the byte.
UUIDToString(u) == <<HexDigits[(u \div 16) + 1], HexDigits[(u % 16) + 1]>>

HexValue(ch) == (CHOOSE d \in 1..16 : HexDigits[d] = ch) - 1

\* UUID::UUID(const std::string&): uuid_parse of the two digits.
UUIDFromString(str) == 16 * HexValue(str[1]) + HexValue(str[2])

\* The Node object whose id is u.
NodeOfUUID(u) == CHOOSE n \in AllNodes : UUIDOf(n) = u

\* Node::_class_name
ClassOf(n) == IF n \in TypedNodes THEN "OtherNode" ELSE "TestNode"

\* The element at index i of a std::set<UUID>: std::next(begin(), i).
SetAt(S, i) == CHOOSE x \in S : Cardinality({y \in S : UUIDOf(y) < UUIDOf(x)}) = i

\* Graph::Visit, the inner loop over the connections cs found for one node,
\* from the k-th on: a child that is not in visited_nodes is visited (the
\* visitor gets GetNode(child), nullptr when the child is not in the map),
\* inserted in visited_nodes and erased from remaining_nodes.
RECURSIVE VisitChildren(_, _, _)
VisitChildren(cs, k, st) ==
    IF k > Len(cs) THEN st
    ELSE LET child == cs[k].en
         IN  IF child \in st.visited
             THEN VisitChildren(cs, k + 1, st)
             ELSE VisitChildren(cs, k + 1,
                      [visited   |-> st.visited \cup {child},
                       order     |-> Append(st.order, GetNode(child)),
                       remaining |-> st.remaining \ {child}])

\* Graph::Visit, the loop over the indexes i of visited_nodes: the states it
\* can end in, one per order in which FindConnections returns the connections.
RECURSIVE VisitFrom(_, _)
VisitFrom(i, st) ==
    IF i >= Cardinality(st.visited) THEN {st}
    ELSE LET it == SetAt(st.visited, i)
         IN  UNION {VisitFrom(i + 1, [VisitChildren(cs, 1, st) EXCEPT !.remaining = @ \ {it}])
                    : cs \in Orders(FindConnections(connections, it))}

\* Graph::Visit with a visitor that records the nodes it is given: the source
\* nodes, the nodes found from them, then the remaining nodes of the map.
Visit ==
    /\ main.pc = "idle"
    /\ IF nodes = {}
       THEN answer' = [op |-> "Visit", order |-> <<>>, error |-> FALSE]
       ELSE \E so \in Orders(GetSourceNodes) :
            \E st \in VisitFrom(0, [visited   |-> GetSourceNodes,
                                    order     |-> [i \in 1..Len(so) |-> so[i]],
                                    remaining |-> nodes]) :
            \E ro \in Orders(st.remaining) :
               answer' = [op    |-> "Visit",
                          order |-> st.order \o [i \in 1..Len(ro) |-> ro[i]],
                          error |-> Cardinality(st.visited \cup st.remaining)
                                        # Cardinality(nodes)]
    /\ nodeCalls' = IF nodes = {} THEN {}
                    ELSE {NodeCall("GetInputPorts", TRUE), NodeCall("GetOutputPorts", TRUE)}
                         \cup (IF GetSourceNodes = {} THEN {} ELSE {NodeCall("ID", FALSE)})
    /\ last' = Call("Visit", Null, FALSE)
    /\ UNCHANGED <<topoVars, data, heap, poolVars, main, ghostVars, errVars>>
    /\ UNCHANGED <<moduleVars, registry>>
    /\ UNCHANGED dispatchVars

\* Graph::GetOrphanNodes: no connected input port and no connected output port.
GetOrphanNodes == {n \in nodes : \A k \in Keys : ~connected[n][k]}

\* graph.GetOrphanNodes() called by the front-end.
QueryOrphanNodes ==
    /\ main.pc = "idle"
    /\ answer' = [op |-> "GetOrphanNodes", ret |-> GetOrphanNodes]
    /\ nodeCalls' = IF nodes = {} THEN {}
                    ELSE {NodeCall("GetInputPorts", TRUE), NodeCall("GetOutputPorts", TRUE)}
    /\ last' = Call("GetOrphanNodes", Null, FALSE)
    /\ UNCHANGED <<topoVars, data, heap, poolVars, main, ghostVars, errVars>>
    /\ UNCHANGED <<moduleVars, registry>>
    /\ UNCHANGED dispatchVars

\* to_json(json&, const Graph&): Node::Save of every node, and the four
\* fields of every connection of the table.
ToJson ==
    [nodes       |-> {[id |-> UUIDToString(UUIDOf(n)), class |-> ClassOf(n)] : n \in nodes},
     connections |-> {[in_id        |-> UUIDToString(UUIDOf(c.sn)),
                       in_var_name  |-> c.sp,
                       out_id       |-> UUIDToString(UUIDOf(c.en)),
                       out_var_name |-> c.ep] : c \in connections}]

\* An empty Graph.
EmptyGraph ==
    [nodes     |-> {},
     connected |-> [n \in AllNodes |-> [k \in Keys |-> FALSE]],
     tuples    |-> {}]

\* from_json, the loop over j["nodes"]: a node is created by the factory,
\* restored and added; a node of a class without constructor is skipped.
RestoreNodes(j, g) ==
    [g EXCEPT !.nodes = @ \cup {NodeOfUUID(UUIDFromString(el.id)) :
                                   el \in {x \in j.nodes : CreateNode(x.class)}}]

\* from_json, the loop over the connections cs from the k-th on:
\* g.ConnectNodes(inUUID, inKey, outUUID, outKey) for each.
RECURSIVE RestoreConnections(_, _, _)
RestoreConnections(cs, k, g) ==
    IF k > Len(cs) THEN g
    ELSE LET s  == NodeOfUUID(UUIDFromString(cs[k].in_id))
             e  == NodeOfUUID(UUIDFromString(cs[k].out_id))
             sk == cs[k].in_var_name
             ek == cs[k].out_var_name
             started == [g.connected EXCEPT ![s][sk] = PortConnect(@).connected]
             endPort == PortConnect(started[e][ek])
         IN  RestoreConnections(cs, k + 1,
                 IF s \notin g.nodes \/ e \notin g.nodes THEN g
                 ELSE IF ~endPort.ret THEN [g EXCEPT !.connected = started]
                 ELSE [g EXCEPT !.connected = [started EXCEPT ![e][ek] = endPort.connected],
                                !.tuples = @ \cup {<<s, sk, e, ek>>}])

\* from_json(const json&, Graph&) on an empty graph: the graphs it can
\* build, one per order of the connections in the json.
FromJson(j) ==
    {RestoreConnections(cs, 1, RestoreNodes(j, EmptyGraph)) : cs \in Orders(j.connections)}

\* json j = graph; Graph restored(env); from_json(j, restored): the front-end
\* saves the graph and restores it into a new Graph of the same Env.
SaveRestore ==
    /\ main.pc = "idle"
    /\ \E g \in FromJson(ToJson) :
          answer' = [op |-> "from_json", nodes |-> g.nodes, tuples |-> g.tuples]
    /\ UNCHANGED <<topoVars, data, heap, poolVars, main, last, ghostVars, nodeCalls, errVars>>
    /\ UNCHANGED <<moduleVars, registry>>
    /\ UNCHANGED dispatchVars

(***************************************************************************)
(* Connections: calls made on the table itself                             *)
(***************************************************************************)
\* Connection::_id of the connection object id: the byte in which the UUIDs
\* differ (no Node has it).
ConnUUID(id) == 200 + id

\* Connections::Remove(const UUID&): erase the equal_range of the key uuid;
\* the key of an entry is the id of its start node.
ConnectionsRemove(conns, uuid) == conns \ {c \in conns : UUIDOf(c.sn) = uuid}

\* The UUIDs the front-end passes: of the connection objects and of the nodes.
RemoveUUIDs == {ConnUUID(id) : id \in ConnIds} \cup {UUIDOf(n) : n \in TopoNodes}

\* graph.GetConnections().Remove(uuid) called by the front-end.
Remove(uuid) ==
    /\ main.pc = "idle"
    /\ connections' = ConnectionsRemove(connections, uuid)
    /\ last' = Call("Remove", uuid, FALSE)
    /\ nodeCalls' = {}
    /\ UNCHANGED <<nodes, bound, connected, data, heap, poolVars, main, ghostVars>>
    /\ UNCHANGED <<errVars, moduleVars>>
    /\ UNCHANGED queryVars
    /\ UNCHANGED dispatchVars

(***************************************************************************)
(* EventDispatcher                                                         *)
(***************************************************************************)
\* EventDispatcher::Bind with insert_or_assign in place of try_emplace: the
\* handler bound last replaces the one that is there.
BindReplaces(name, event) ==
    /\ main.pc = "idle"
    /\ dispatcher' = [dispatcher EXCEPT ![name] = event]
    /\ last' = Call("Bind", Null, dispatcher[name] # NoHandler)
    /\ answer' = NoAnswer
    /\ UNCHANGED <<topoVars, data, heap, poolVars, main, ghostVars, nodeCalls, errVars>>
    /\ UNCHANGED <<moduleVars, registry, other, foreign>>

\* EventDispatcher::Bind(name, event): try_emplace keeps the handler that is
\* bound under the name.  The call record says whether one was.
Bind(name, event) ==
    /\ main.pc = "idle"
    /\ dispatcher' = IF dispatcher[name] = NoHandler
                     THEN [dispatcher EXCEPT ![name] = event]
                     ELSE dispatcher
    /\ last' = Call("Bind", Null, dispatcher[name] # NoHandler)
    /\ answer' = NoAnswer
    /\ UNCHANGED <<topoVars, data, heap, poolVars, main, ghostVars, nodeCalls, errVars>>
    /\ UNCHANGED <<moduleVars, registry, other, foreign>>

\* EventDispatcher::Unbind(name)
Unbind(name) ==
    /\ main.pc = "idle"
    /\ dispatcher' = [dispatcher EXCEPT ![name] = NoHandler]
    /\ last' = Call("Unbind", Null, FALSE)
    /\ answer' = NoAnswer
    /\ UNCHANGED <<topoVars, data, heap, poolVars, main, ghostVars, nodeCalls, errVars>>
    /\ UNCHANGED <<moduleVars, registry, other, foreign>>

\* EventDispatcher::Broadcast: every entry of _events is called, in the
\* order of the unordered_map; calls lists the <<name, handler>> invoked.
Broadcast ==
    /\ main.pc = "idle"
    /\ \E o \in Orders({name \in EventNames : dispatcher[name] # NoHandler}) :
          answer' = [op |-> "Broadcast",
                     calls |-> [i \in 1..Len(o) |-> <<o[i], dispatcher[o[i]]>>]]
    /\ UNCHANGED <<topoVars, data, heap, poolVars, main, last, ghostVars, nodeCalls, errVars>>
    /\ UNCHANGED <<moduleVars, registry, dispatchVars>>

(***************************************************************************)
(* A second Graph that holds the same Node objects                         *)
(***************************************************************************)
\* other.AddNode(node): Bind, then emplace in its node map.
OtherAddNode(n) ==
    /\ main.pc = "idle"
    /\ foreign' = EventBind(foreign, bound, n)
    /\ other' = [other EXCEPT !.nodes = @ \cup {n}]
    /\ last' = Call("AddNode", Null, FALSE)
    /\ UNCHANGED <<topoVars, data, heap, poolVars, main, ghostVars, nodeCalls, errVars>>
    /\ UNCHANGED <<moduleVars, queryVars, dispatcher>>

\* other.RemoveNodeByID(uuid): the connections keyed by the node are erased,
\* and the node is erased from the map; its OnEmitOutput is left as it is.
OtherRemoveNodeByID(n) ==
    /\ main.pc = "idle"
    /\ other' = [other EXCEPT !.nodes = @ \ {n},
                              !.tuples = {t \in @ : t[1] # n}]
    /\ last' = Call("RemoveNodeByID", Null, FALSE)
    /\ UNCHANGED <<topoVars, data, heap, poolVars, main, ghostVars, nodeCalls, errVars>>
    /\ UNCHANGED <<moduleVars, queryVars, dispatcher, foreign>>

\* other.ConnectNodes(s, sk, e, ek): the ports are those of the Node objects,
\* so their flags are the ones the first graph sees.
OtherConnectNodes(s, sk, e, ek) ==
    /\ main.pc = "idle"
    /\ last' = Call("ConnectNodes", Null, FALSE)
    /\ IF s \notin other.nodes \/ e \notin other.nodes
       THEN UNCHANGED <<connected, other>>
       ELSE LET started == [connected EXCEPT ![s][sk] = PortConnect(@).connected]
                endPort == PortConnect(started[e][ek])
                added   == [other EXCEPT !.tuples = @ \cup {<<s, sk, e, ek>>}]
            IN  IF ~endPort.ret
                THEN /\ connected' = started
                     /\ UNCHANGED other
                ELSE /\ connected' = [started EXCEPT ![e][ek] = endPort.connected]
                     /\ other' = IF data[s][sk] # Null
                                 THEN OtherPropagate(added, s, sk) ELSE added
    /\ UNCHANGED <<nodes, bound, connections, data, heap, poolVars, main, ghostVars>>
    /\ UNCHANGED <<nodeCalls, errVars, moduleVars, queryVars, dispatcher, foreign>>

(***************************************************************************)
(* Specification: building and editing a graph                             *)
(***************************************************************************)
Init ==
    /\ nodes = {}
    /\ bound = {}
    /\ connected = [n \in AllNodes |-> [k \in Keys |-> FALSE]]
    /\ data = [n \in AllNodes |-> [k \in Keys |-> Null]]
    /\ heap = [b \in BoxIds |-> 0]
    /\ connections = {}
    /\ queue = <<>>
    /\ worker = [w \in Workers |-> [pc |-> "idle", task |-> NoTask]]
    /\ connMutex = {}
    /\ nodeMutex = {}
    /\ main = [pc |-> "idle", node |-> NoNode]
    /\ last = NoCall
    /\ nextSeq = 0
    /\ submitted = [c \in ConnIds |-> <<>>]
    /\ received = [c \in ConnIds |-> <<>>]
    /\ emitted = [n \in AllNodes |-> [k \in OutKeys |-> 0]]
    /\ nodeCalls = {}
    /\ events = <<>>
    /\ escaped = "none"
    /\ handle = [m \in Modules |-> FALSE]
    /\ registered = [m \in Modules |-> 0]
    /\ loads = [m \in Modules |-> 0]
    /\ released = [m \in Modules |-> 0]
    /\ constructors = {}
    /\ friendly = {}
    /\ categories = [c \in Categories |-> [t \in ClassTags |-> 0]]
    /\ current = {}
    /\ registry = EnvRegistry
    /\ answer = NoAnswer
    /\ dispatcher = [name \in EventNames |-> NoHandler]
    /\ other = EmptyOther
    /\ foreign = {}

Next ==
    \/ \E n \in TopoNodes : AddNode(n)
    \/ \E n \in TopoNodes : RemoveNodeByID(n)
    \/ \E s \in TopoNodes, sk \in OutKeys : \E e \in TopoNodes \ {s}, ek \in InKeys :
          ConnectNodes(s, sk, e, ek)
    \/ \E s \in TopoNodes, sk \in OutKeys : \E e \in TopoNodes \ {s}, ek \in InKeys :
          DisconnectNodes(s, sk, e, ek)
    \/ MainCompute

Spec == Init /\ [][Next]_vars

(***************************************************************************)
(* Specifications: data flowing through a graph that has been built        *)
(***************************************************************************)
Conn(id, s, sk, e, ek) == [id |-> id, sn |-> s, sp |-> sk, en |-> e, ep |-> ek]

\* The graph after AddNode(A), AddNode(B), AddNode(C) and the ConnectNodes
\* calls that create the connections conns.
Built(conns) ==
    /\ nodes = NodeIds
    /\ bound = NodeIds
    /\ connections = conns
    /\ connected = [n \in AllNodes |-> [k \in Keys |->
                        \E c \in conns : (c.sn = n /\ c.sp = k) \/ (c.en = n /\ c.ep = k)]]
    /\ data = [n \in AllNodes |-> [k \in Keys |-> Null]]
    /\ heap = [b \in BoxIds |-> 0]
    /\ queue = <<>>
    /\ worker = [w \in Workers |-> Idle]
    /\ connMutex = {}
    /\ nodeMutex = {}
    /\ main = [pc |-> "idle", node |-> NoNode]
    /\ last = Call("ConnectNodes", 2, FALSE)
    /\ nextSeq = 0
    /\ submitted = [c \in ConnIds |-> <<>>]
    /\ received = [c \in ConnIds |-> <<>>]
    /\ emitted = [n \in AllNodes |-> [k \in OutKeys |-> 0]]
    /\ nodeCalls = {}
    /\ events = <<>>
    /\ escaped = "none"
    /\ handle = [m \in Modules |-> FALSE]
    /\ registered = [m \in Modules |-> 0]
    /\ loads = [m \in Modules |-> 0]
    /\ released = [m \in Modules |-> 0]
    /\ constructors = {}
    /\ friendly = {}
    /\ categories = [c \in Categories |-> [t \in ClassTags |-> 0]]
    /\ current = {}
    /\ registry = EnvRegistry
    /\ answer = NoAnswer
    /\ dispatcher = [name \in EventNames |-> NoHandler]
    /\ other = EmptyOther
    /\ foreign = {}

\* A.out -> B.in, B.out -> C.in
Chain == {Conn(1, "A", "out", "B", "in"), Conn(2, "B", "out", "C", "in")}

\* A.out -> B.in, A.out -> C.in
Fanout == {Conn(1, "A", "out", "B", "in"), Conn(2, "A", "out", "C", "in")}

PoolNext ==
    \E w \in Workers :
        \/ Take(w)
        \/ LockWeak(w)
        \/ LockConn(w)
        \/ GetEndNode(w)
        \/ LockNode(w)
        \/ Deliver(w)
        \/ Finish(w)

InitChain == Built(Chain)

NextChain ==
    \/ \E k \in InKeys, v \in Values : SetInputData("A", k, v)
    \/ PoolNext

SpecChain == InitChain /\ [][NextChain]_vars

InitFanout == Built(Fanout)

NextFanout ==
    \/ \E v \in Values : SetOutputData("A", "out", v)
    \/ PoolNext

SpecFanout == InitFanout /\ [][NextFanout]_vars

\* Data flows along the chain while the front-end disconnects and reconnects
\* its first edge; the front-end stops calling once MaxTasks propagation
\* tasks have been submitted or a task is still queued.
InitEdit == Built(Chain)

CanCall == nextSeq < MaxTasks /\ queue = <<>>

NextEdit ==
    \/ CanCall /\ \E v \in Values : SetInputData("A", "in", v)
    \/ CanCall /\ \E v \in Values : SetOutputData("A", "out", v)
    \/ CanCall /\ Run
    \/ CanCall /\ ConnectNodes("A", "out", "B", "in")
    \/ CanCall /\ DisconnectNodes("A", "out", "B", "in")
    \/ MainCompute
    \/ PoolNext

SpecEdit == InitEdit /\ [][NextEdit]_vars

\* A float source F and a source X of an unregistered type feed the int
\* inputs of B.
TypedSinks == {"B"}

ValuesOfType(ty) == IF ty = FloatTag THEN FloatValues ELSE IF ty = XTag THEN XValues ELSE Values

NextTyped ==
    \/ CanCall /\ \E n \in TypedNodes \cup TypedSinks : AddNode(n)
    \/ CanCall /\ \E s \in TypedNodes, e \in TypedSinks, ek \in InKeys : ConnectNodes(s, "out", e, ek)
    \/ CanCall /\ \E s \in TypedNodes : \E v \in ValuesOfType(PortType(s, "out")) :
                      SetOutputData(s, "out", v)
    \/ PoolNext

SpecTyped == Init /\ [][NextTyped]_vars

\* A.out feeds B.in and C.in; Compute() of a node and the subscribers of
\* OnSetInput may throw.
NextErrors ==
    \/ Running /\ CanCall /\ \E v \in Values : SetOutputData("A", "out", v)
    \/ Running /\ CanCall /\ \E n \in NodeIds, o \in ComputeOutcomes : MainInvoke(n, o)
    \/ Running /\ PoolNext
    \/ Running /\ \E w \in Workers, x \in Failures : DeliverThrows(w, x)
    \/ Running /\ \E w \in Workers, o \in Failures : FinishFails(w, o)

SpecErrors == InitFanout /\ [][NextErrors]_vars

\* Two Module instances are loaded and unloaded; while one is loaded the
\* factory creates a TestNode, which the front-end adds to the graph, computes
\* and removes.
NextModule ==
    \/ \E m \in Modules, path \in Paths : Load(m, path)
    \/ \E m \in Modules, u \in UnregisterOutcomes : Unload(m, u)
    \/ CreateNode("TestNode") /\ \E n \in ModuleNodes : AddNode(n)
    \/ (\E m \in Modules : IsLoaded(m)) /\ \E n \in ModuleNodes \cap nodes :
          MainInvoke(n, "exception")
    \/ \E n \in ModuleNodes : RemoveNodeByID(n)

SpecModule == Init /\ [][NextModule]_vars

\* The front-end registers and unregisters classes and creates nodes.
NextFactory ==
    \/ \E c \in Categories, t \in ClassTags : FactoryRegister(c, t)
    \/ \E c \in Categories, t \in ClassTags : FactoryUnregister(c, t)
    \/ \E t \in ClassTags : FactoryCreate(t)

SpecFactory == Init /\ [][NextFactory]_vars

\* The front-end registers conversions and asks the registry.
NextRegistry ==
    \/ \E c \in UserConversions, f \in Converters : RegisterConversion(c[1], c[2], f)
    \/ \E from \in QueryTags, to \in QueryTags : QueryIsConvertible(from, to)
    \/ \E v \in Values \cup FloatValues \cup XValues, to \in QueryTags : QueryConvert(v, to)

SpecRegistry == Init /\ [][NextRegistry]_vars

\* The front-end builds a graph of TestNodes ("out" to "in") and of a node
\* without ports, removes nodes, and then visits the graph.
VisitNodes == NodeIds \cup ModuleNodes

\* The front-end has made no query yet.
Editing == answer = NoAnswer

NextVisit ==
    \/ Editing /\ \E n \in VisitNodes : AddNode(n)
    \/ Editing /\ \E n \in NodeIds : RemoveNodeByID(n)
    \/ Editing /\ \E s \in NodeIds : \E e \in NodeIds \ {s} : ConnectNodes(s, "out", e, "in")
    \/ Visit

SpecVisit == Init /\ [][NextVisit]_vars

\* The front-end registers the TestNode class, edits a graph of two
\* TestNodes, and then asks for its orphans or saves and restores it.
NextSave ==
    \/ Editing /\ ~CreateNode("TestNode") /\ FactoryRegister("test", "TestNode")
    \/ Editing /\ \E n \in TopoNodes : AddNode(n)
    \/ Editing /\ \E n \in TopoNodes : RemoveNodeByID(n)
    \/ Editing /\ \E s \in TopoNodes, sk \in OutKeys : \E e \in TopoNodes \ {s}, ek \in InKeys :
          ConnectNodes(s, sk, e, ek)
    \/ Editing /\ \E s \in TopoNodes, sk \in OutKeys : \E e \in TopoNodes \ {s}, ek \in InKeys :
          DisconnectNodes(s, sk, e, ek)
    \/ MainCompute
    \/ QueryOrphanNodes
    \/ SaveRestore

SpecSave == Init /\ [][NextSave]_vars

\* The front-end connects two TestNodes and removes entries of the table.
NextTable ==
    \/ \E n \in TopoNodes : AddNode(n)
    \/ \E s \in TopoNodes, sk \in OutKeys : \E e \in TopoNodes \ {s}, ek \in InKeys :
          ConnectNodes(s, sk, e, ek)
    \/ \E uuid \in RemoveUUIDs : Remove(uuid)

SpecTable == Init /\ [][NextTable]_vars

\* A.out feeds B.in; the pool runs the propagation and run tasks while the
\* front-end emits on A, runs the graph, removes and adds B, disconnects the
\* edge and connects A's other output to B.
InitLocks == Built({Conn(1, "A", "out", "B", "in")})

NextLocks ==
    \/ CanCall /\ SetOutputData("A", "out", 1)
    \/ CanCall /\ Run
    \/ CanCall /\ RemoveNodeByID("B")
    \/ CanCall /\ AddNode("B")
    \/ CanCall /\ ConnectNodes("A", "other_out", "B", "other_in")
    \/ CanCall /\ DisconnectNodes("A", "out", "B", "in")
    \/ MainCompute
    \/ PoolNext

SpecLocks == InitLocks /\ [][NextLocks]_vars

\* The graph with the edge A.out -> B.in, on which the front-end sets the
\* input of A (one data box each time) and runs the graph, at most once after
\* each input: a finite number of calls.  The pool's threads keep running the
\* tasks queued (thread_pool: a task that can run is run).
NextLive ==
    \/ \E v \in Values : SetInputData("A", "in", v)
    \/ last.op = "SetInputData" /\ Run
    \/ PoolNext

SpecLive == InitLocks /\ [][NextLive]_vars /\ WF_vars(PoolNext)

\* Handlers are bound to a dispatcher, unbound, and events are broadcast.
NextDispatcher ==
    \/ \E name \in EventNames, event \in Handlers : Bind(name, event)
    \/ \E name \in EventNames : Unbind(name)
    \/ Broadcast

SpecDispatcher == Init /\ [][NextDispatcher]_vars

(***************************************************************************)
(* Claims about the connections table and the ports' flags                 *)
(***************************************************************************)
\* The connections of the table that end at input port k of node n.
EndingAt(n, k) == {c \in connections : c.en = n /\ c.ep = k}

\* The connections of the table that start at output port k of node n.
StartingAt(n, k) == {c \in connections : c.sn = n /\ c.sp = k}

\* C1: after any sequence of add_node, connect, disconnect and remove_node
\* calls, no input port is the end of more than one connection of the table.
C1_AtMostOneConnectionPerInput ==
    \A n \in NodeIds, k \in InKeys : Cardinality(EndingAt(n, k)) <= 1

\* C2: an input port of a node of the graph is flagged connected if and only
\* if exactly one connection of the table ends at it.
C2_InputFlagMatchesTable ==
    main.pc = "idle" =>
        \A n \in nodes, k \in InKeys : connected[n][k] <=> Cardinality(EndingAt(n, k)) = 1

\* C3: an output port of a node of the graph is flagged connected if and only
\* if at least one connection of the table starts at it.
C3_OutputFlagMatchesTable ==
    main.pc = "idle" =>
        \A n \in nodes, k \in OutKeys : connected[n][k] <=> StartingAt(n, k) # {}

\* C4: when remove_node(id) returns, the table holds no connection whose
\* start node or end node is id.
C4_RemoveNodeDropsConnections ==
    [][\A n \in NodeIds :
          RemoveNodeByID(n) => \A c \in connections' : c.sn # n /\ c.en # n]_vars

\* C5: disconnect(s, sk, e, ek) removes from the table the connections with
\* exactly that 4-tuple and leaves every other connection in it.
C5_DisconnectRemovesExactlyTheTuple ==
    [][\A s \in NodeIds, sk \in OutKeys, e \in NodeIds, ek \in InKeys :
          DisconnectNodes(s, sk, e, ek) =>
              connections' = {c \in connections : Tuple(c) # <<s, sk, e, ek>>}]_vars

\* C6: a connect call whose input port is already connected inserts nothing:
\* it returns a connection of the table with the same 4-tuple if there is
\* one and null otherwise, and the table is unchanged.
C6_ConnectOnConnectedInput ==
    [][\A s \in NodeIds, sk \in OutKeys, e \in NodeIds, ek \in InKeys :
          (last'.op = "ConnectNodes" /\ ConnectNodes(s, sk, e, ek) /\ s \in nodes /\ e \in nodes /\ connected[e][ek]) =>
              /\ connections' = connections
              /\ LET same == {c \in connections : Tuple(c) = <<s, sk, e, ek>>}
                 IN  IF same = {} THEN last'.ret = Null ELSE last'.ret \in {c.id : c \in same}]_vars

\* A connect call was refused by a connected input port and returned the
\* connection that is already there.
C6_Witness ==
    /\ last.op = "ConnectNodes"
    /\ last.refused
    /\ last.ret # Null
    /\ \E c \in connections : c.id = last.ret /\ connected[c.en][c.ep]

(***************************************************************************)
(* Claims about propagation through the worker pool                        *)
(***************************************************************************)
\* C7: the updates submitted on one connection are all delivered to its
\* input port, and in the order in which they were submitted.
C7_DeliveredInSubmissionOrder ==
    \A c \in ConnIds :
        /\ IsIncreasing(received[c])
        /\ WaitReturns => Len(received[c]) = Len(submitted[c])

\* C8: no two executions of one node's Compute() that the engine started
\* (run task, propagation task, connect, disconnect) are in progress together.
C8_ComputeNeverReentered == \A n \in NodeIds : ComputeInProgress(n) <= 1

C10_FanoutLastValue ==
    \A n \in NodeIds, k \in OutKeys :
        (WaitReturns /\ emitted[n][k] # 0) =>
            \A c \in StartingAt(n, k) :
                data[c.en][c.ep] # Null /\ heap[data[c.en][c.ep]] = emitted[n][k]

\* C11: when ConnectNodes creates a connection from an output port that holds
\* a box, then with no further call by the front-end, once the pool has
\* drained the connection's input port holds the value that box had.
C11_ConnectCatchesUp ==
    (last.op = "ConnectNodes" /\ last.sent # 0 /\ WaitReturns /\ main.pc = "idle") =>
        \A c \in connections :
            c.id = last.ret => data[c.en][c.ep] # Null /\ heap[data[c.en][c.ep]] = last.sent

\* C15: a box shared between ports is never mutated in place: a delivery to
\* one input port leaves the value observable at every other port as it was.
C15_SharedBoxesNotMutated ==
    [][\A w \in Workers :
          Deliver(w) =>
              \A n \in NodeIds, k \in Keys :
                  (<<n, k>> # <<worker[w].task.node, worker[w].task.conn.ep>> /\ data[n][k] # Null)
                      => heap'[data[n][k]] = heap[data[n][k]]]_vars

\* C12: when the start port's type is not convertible to the end port's
\* type, ConnectNodes returns null and inserts no connection.
C12_ConnectRefusesInconvertible ==
    [][\A s \in AllNodes, sk \in OutKeys, e \in AllNodes, ek \in InKeys :
          (last'.op = "ConnectNodes" /\ ConnectNodes(s, sk, e, ek) /\ s \in nodes /\ e \in nodes
              /\ ~IsConvertible(PortType(s, sk), PortType(e, ek)))
          => last'.ret = Null /\ connections' = connections]_vars

\* C13: when a box of type From is delivered to an input port declared To,
\* From # To, and a converter From -> To is registered, the port then holds a
\* box of type To whose value is the converter's result.
C13_DeliveryConverts ==
    [][\A w \in Workers :
          LET t == worker[w].task
              from == TypeOf(t.box)
              to == PortType(t.node, t.conn.ep)
          IN  (Deliver(w) /\ t.box # Null /\ from # to /\ <<from, to>> \in Conversions)
              => /\ data'[t.node][t.conn.ep] # Null
                 /\ heap'[data'[t.node][t.conn.ep]] = Converter(from, to, heap[t.box])
                 /\ TypeOfValue(heap'[data'[t.node][t.conn.ep]]) = to]_vars

\* C14: after a delivery, the box the input port holds has a type that is
\* convertible to the port's declared type.
C14_StoredTypeConvertible ==
    [][\A w \in Workers :
          LET t == worker[w].task
          IN  (Deliver(w) /\ data'[t.node][t.conn.ep] # Null)
              => IsConvertible(TypeOfValue(heap'[data'[t.node][t.conn.ep]]),
                               PortType(t.node, t.conn.ep))]_vars


C17_TaskFailuresReported ==
    [][\A w \in Workers, x \in Failures :
          DeliverThrows(w, x)
          => /\ escaped' = "none"
             /\ \E i \in 1..Len(events') : events'[i] = GraphEvent("OnError")
             /\ \A v \in Workers : worker'[v].pc # "aborted"]_vars

\* C18: when Compute() of a node of the graph fails, OnError is broadcast both
\* by the node and by the graph.
C18_ComputeFailureOnNodeAndGraph ==
    [][\A o \in Failures :
          (\/ \E w \in Workers : FinishFails(w, o)
           \/ \E n \in nodes : MainInvoke(n, o))
          => /\ \E i \in 1..Len(events') : events'[i] = NodeEvent("OnError")
             /\ \E i \in 1..Len(events') : events'[i] = GraphEvent("OnError")]_vars

\* C19: no graph call invokes a node's Stop, InvokeCompute, SetInputData or a
\* port query while the calling thread holds the graph's _nodes_mutex.
C19_NodeCallsOutsideMapMutex ==
    \A c \in nodeCalls :
        c.method \in {"Stop", "InvokeCompute", "SetInputData", "GetInputPort", "GetOutputPort",
                      "GetInputPorts", "GetOutputPorts", "GetOutputData"}
        => ~c.locked

\* C20: Load on a loaded module returns false, leaves it loaded and registers
\* nothing; Unload on a module that is not loaded returns false and changes
\* nothing; Load of a module archive on a module that is not loaded returns
\* true and makes IsLoaded true, also after an Unload; Unload on a loaded
\* module returns true and makes IsLoaded false.
C20_LoadUnloadSequences ==
    [][\A m \in Modules :
          /\ \A path \in Paths :
                Load(m, path) =>
                    IF IsLoaded(m)
                    THEN last'.ret = False /\ IsLoaded(m)' /\ registered' = registered
                    ELSE path = "archive" =>
                            last'.ret = True /\ IsLoaded(m)' /\ registered'[m] = 1
          /\ Unload(m, "ok") =>
                IF IsLoaded(m)
                THEN last'.ret = True /\ ~IsLoaded(m)'
                ELSE last'.ret = False /\ UNCHANGED moduleVars]_vars

\* A module that was loaded, then unloaded, has been loaded again.
C20_Witness ==
    /\ last = Call("Load", True, FALSE)
    /\ \E m \in Modules : IsLoaded(m) /\ registered[m] = 1 /\ loads[m] = 2

\* C21: when Load fails with an exception, at whatever step, the module is
\* not loaded afterwards and every library handle it opened has been released.
C21_FailedLoadReleases ==
    [][\A m \in Modules, path \in Paths :
          (Load(m, path) /\ last'.ret = Threw)
          => ~IsLoaded(m)' /\ released'[m] = loads'[m]]_vars

\* C22: once Unload has been called on a loaded module, every library handle
\* the module opened has been released, exactly once, also when
\* UnregisterModule throws or cannot be resolved.
C22_UnloadReleasesHandle ==
    [][\A m \in Modules, u \in UnregisterOutcomes :
          (Unload(m, u) /\ IsLoaded(m))
          => ~IsLoaded(m)' /\ released'[m] = loads'[m]]_vars

\* C23: when Load has returned true, the factory creates a node for the class
\* tag the module registers; when Unload of the module has returned true, the
\* factory returns null for that tag.
C23_CreateFollowsModule ==
    [][\A m \in Modules :
          /\ (\E path \in Paths : Load(m, path) /\ last'.ret = True)
                => CreateNode("TestNode")'
          /\ (\E u \in UnregisterOutcomes : Unload(m, u) /\ last'.ret = True)
                => ~CreateNode("TestNode")']_vars

\* A node of the module's class was created and added while the module was
\* loaded, and the module has been unloaded since.
C23_Witness ==
    /\ last = Call("Unload", True, FALSE)
    /\ "T" \in nodes
    /\ \A m \in Modules : ~IsLoaded(m)
    /\ ~CreateNode("TestNode")

\* C24: CreateNode returns a node exactly for the class tags registered and
\* not unregistered since; UnregisterNodeClass removes the tag's constructor,
\* its friendly name and its entries in the category it is given.
C24_CreateIffRegistered ==
    [][\A t \in ClassTags :
          /\ FactoryCreate(t) => (last'.ret = True <=> t \in current)
          /\ \A c \in Categories :
                FactoryUnregister(c, t)
                => t \notin constructors' /\ t \notin friendly' /\ categories'[c][t] = 0]_vars

\* Classes were registered, all have been unregistered, and CreateNode
\* returned null; an entry of another category is still in the category map.
C24_Witness ==
    /\ last = Call("CreateNode", False, FALSE)
    /\ current = {}
    /\ \E c \in Categories, t \in ClassTags : categories[c][t] > 0

\* C25: IsConvertible(from, to) is true exactly when, a leading "const " and
\* a trailing "&" taken off both tags, from equals to, or to is std::any, or
\* a conversion from -> to is registered.
C25_IsConvertibleExactly ==
    [][\A from \in QueryTags, to \in QueryTags :
          QueryIsConvertible(from, to)
          => (answer'.ret = 1
              <=> \/ StripConstSpace(from) = StripConstSpace(to)
                  \/ StripConstSpace(to) = AnyTag
                  \/ HasEntry(registry, StripConstSpace(from), StripConstSpace(to)))]_vars

\* C26: Convert throws when the box's type differs from the target, the target
\* is not std::any and the registry holds an empty converter for the pair.
C26_NullConverterThrows ==
    [][\A v \in Values \cup FloatValues \cup XValues, to \in QueryTags :
          (/\ QueryConvert(v, to)
           /\ TypeOfValue(v) # to
           /\ to # AnyTag
           /\ HasNullEntry(registry, TypeOfValue(v), to))
          => answer'.threw]_vars

(***************************************************************************)
(* Claims about saving, visiting and querying the graph                    *)
(***************************************************************************)
\* The 4-tuples of the connections table.
Tuples == {Tuple(c) : c \in connections}

\* C27: a graph saved with to_json and restored with from_json into an empty
\* graph, every class of its nodes being registered, has the same set of node
\* ids and the same set of connection 4-tuples.
C27_SaveRestoreRoundTrip ==
    [][(SaveRestore /\ \A n \in nodes : CreateNode(ClassOf(n)))
       => answer'.nodes = nodes /\ answer'.tuples = Tuples]_vars

\* The nodes reached from the nodes of S through the connections of the table.
RECURSIVE ReachableFrom(_)
ReachableFrom(S) ==
    LET T == S \cup {c.en : c \in {x \in connections : x.sn \in S}}
    IN  IF T = S THEN S ELSE ReachableFrom(T)

\* No node is reached from itself.
Acyclic ==
    \A n \in AllNodes : n \notin ReachableFrom({c.en : c \in FindConnections(connections, n)})

\* C28: on an acyclic graph, Visit gives the visitor every node of the node
\* map exactly once and nothing else, and broadcasts no error.
C28_VisitsEachNodeOnce ==
    [][(Visit /\ Acyclic)
       => /\ \A n \in nodes : Cardinality({i \in 1..Len(answer'.order) : answer'.order[i] = n}) = 1
          /\ \A i \in 1..Len(answer'.order) : answer'.order[i] \in nodes
          /\ ~answer'.error]_vars

\* The flags of the ports agree with the table, and every connection of the
\* table joins two nodes of the map.
Consistent ==
    /\ \A c \in connections : c.sn \in nodes /\ c.en \in nodes
    /\ \A n \in nodes, k \in Keys :
          connected[n][k] <=> \E c \in connections : (c.sn = n /\ c.sp = k) \/ (c.en = n /\ c.ep = k)

\* C29: Visit gives the visitor every node that is reached from a source node
\* before any node that is not; checked on the graphs whose flags agree with
\* the table.
C29_ReachableBeforeOrphans ==
    [][(Visit /\ Consistent)
       => \A i, j \in 1..Len(answer'.order) :
             (/\ answer'.order[i] \notin ReachableFrom(GetSourceNodes)
              /\ answer'.order[j] \in ReachableFrom(GetSourceNodes))
             => j < i]_vars

\* C30: GetOrphanNodes returns exactly the nodes of the map at which no
\* connection of the table starts or ends.
C30_OrphansHaveNoConnection ==
    [][QueryOrphanNodes
       => answer'.ret = {n \in nodes : \A c \in connections : c.sn # n /\ c.en # n}]_vars

\* Nodes A and B are added to, connected in and removed from a second graph
\* and the first one, in any order, and A emits on its output; the front-end
\* stops calling once MaxTasks tasks have been submitted in either graph.
CanMove == CanCall /\ other.tasks < MaxTasks

NextMove ==
    \/ CanMove /\ \E n \in TopoNodes : OtherAddNode(n)
    \/ CanMove /\ \E n \in TopoNodes : OtherRemoveNodeByID(n)
    \/ CanMove /\ OtherConnectNodes("A", "out", "B", "in")
    \/ CanMove /\ \E n \in TopoNodes : AddNode(n)
    \/ CanMove /\ ConnectNodes("A", "out", "B", "in")
    \/ CanMove /\ SetOutputData("A", "out", 1)
    \/ PoolNext

SpecMove == Init /\ [][NextMove]_vars

(***************************************************************************)
(* Claims about the table's entries, the dispatchers and the pool          *)
(***************************************************************************)
\* C31: no two connections of the table have the same 4-tuple
\* (start node, start port, end node, end port).
C31_TuplesUnique ==
    \A c, d \in connections : Tuple(c) = Tuple(d) => c = d

\* C32: Connections::Remove(id) called with the UUID of a connection of the
\* table removes that connection and no other.
C32_RemoveByConnectionId ==
    [][\A id \in ConnIds :
          (Remove(ConnUUID(id)) /\ \E c \in connections : c.id = id)
          => connections' = {c \in connections : c.id # id}]_vars

\* C33: Bind under a name that has a handler leaves that handler bound, and
\* Broadcast invokes, for every name, the handler bound under it exactly once
\* and no other: the handler bound first is the one invoked until Unbind.
C33_BindKeepsOriginal ==
    [][/\ \A name \in EventNames, event \in Handlers :
             (Bind(name, event) /\ dispatcher[name] # NoHandler)
             => dispatcher'[name] = dispatcher[name]
       /\ Broadcast
          => \A name \in EventNames :
                /\ \A i \in 1..Len(answer'.calls) :
                      answer'.calls[i][1] = name => answer'.calls[i][2] = dispatcher[name]
                /\ dispatcher[name] # NoHandler
                   => Cardinality({i \in 1..Len(answer'.calls) :
                                      answer'.calls[i] = <<name, dispatcher[name]>>}) = 1]_vars

\* A Bind under a bound name was refused, and the Broadcast that followed
\* invoked the handlers that were bound first.
C33_Witness ==
    /\ last = Call("Bind", Null, TRUE)
    /\ answer.op = "Broadcast"
    /\ Len(answer.calls) = Cardinality(EventNames)

\* The pool thread w holds the mutex of the connection of its task.
HoldsConn(w) ==
    /\ worker[w].task.kind = "propagate"
    /\ worker[w].pc \in {"getnode", "locknode", "deliver", "compute"}

\* The pool thread w holds the mutex of the node of its task.
HoldsNode(w) == worker[w].pc \in {"deliver", "compute"}

\* The pool thread w is blocked in std::lock_guard on a connection / a node.
WaitsConn(w) == worker[w].pc = "lockconn" /\ worker[w].task.conn.id \in connMutex

WaitsNode(w) ==
    /\ worker[w].pc = "locknode" \/ (worker[w].pc = "start" /\ worker[w].task.kind = "run")
    /\ worker[w].task.node \in nodeMutex

\* w is blocked on a mutex that x holds.
WaitsFor(w, x) ==
    \/ WaitsConn(w) /\ HoldsConn(x) /\ worker[x].task.conn.id = worker[w].task.conn.id
    \/ WaitsNode(w) /\ HoldsNode(x) /\ worker[x].task.node = worker[w].task.node

\* The threads that the threads of S wait for, directly or not.
RECURSIVE Awaited(_)
Awaited(S) ==
    LET T == S \cup {x \in Workers : \E w \in S : WaitsFor(w, x)}
    IN  IF T = S THEN S ELSE Awaited(T)

C35_WaitEventuallyReturns == <>[](WaitReturns /\ nextSeq <= 2 * MaxBoxes)

\* Inputs were set, the graph was run after each, every task was delivered
\* to B, and the pool has drained.
C35_Witness ==
    /\ WaitReturns
    /\ last.op = "Run"
    /\ nextSeq = 2 * MaxBoxes
    /\ data["B"]["in"] # Null

\* C36: a ConnectNodes call that adds no connection to the table (a node is
\* missing, or the input port is already connected) leaves the connected flag
\* of every port and the table as they were.
C36_RefusedConnectChangesNothing ==
    [][\A s \in NodeIds, sk \in OutKeys, e \in NodeIds, ek \in InKeys :
          (ConnectNodes(s, sk, e, ek) /\ connections' = connections) =>
              connected' = connected]_vars

\* C37: a ConnectNodes call that creates a connection from an output port
\* holding data submits deliveries along the new connection only: no task it
\* queues is for a connection that was in the table before the call.
C37_ConnectDeliversOnNewConnectionOnly ==
    [][\A s \in AllNodes, sk \in OutKeys, e \in AllNodes, ek \in InKeys :
          (ConnectNodes(s, sk, e, ek) /\ connections' # connections) =>
              \A i \in (Len(queue) + 1)..Len(queue') :
                  queue'[i].conn \in connections' \ connections]_vars

\* C38: once DisconnectNodes(A, out, B, in) has returned and the pool has
\* drained with no other call made since, the input in of B (not required)
\* holds no data, whatever propagation tasks were submitted before the call.
C38_InputEmptyAfterDisconnect ==
    (last.op = "DisconnectNodes" /\ main.pc = "idle" /\ WaitReturns) =>
        data["B"]["in"] = Null

\* C39: a node that is in the first graph and not (or no longer) in the
\* second one propagates what it emits along the first graph's connections,
\* one task per connection from the port, and submits nothing through the
\* second graph.
C39_MovedNodePropagatesInNewGraph ==
    [][\A n \in TopoNodes, k \in OutKeys, v \in Values :
          (SetOutputData(n, k, v) /\ n \in nodes /\ n \notin other.nodes) =>
              /\ Len(queue') - Len(queue) = Cardinality(FindConnectionsKey(connections, n, k))
              /\ other'.tasks = other.tasks]_vars

====
